---- MODULE Spec2Model ----
(***************************************************************************)
(* Model of app.py, the lead-intake webhook: the two POST handlers         *)
(* process_lead_or_task ("/") and lead_endpoint ("/lead"), the two task    *)
(* handlers handle_gmail_lead_reply and handle_generic_task, and the       *)
(* external completion call call_openai.                                   *)
(*                                                                         *)
(* Texts are sequences of tokens.  A token is a TLA+ string: one character *)
(* of a caller's or the model's text, or one literal of the program (a     *)
(* fixed sentence, an HTML tag).  Bodies, subjects and form names are made *)
(* of one-character tokens only, so Len counts characters.                 *)
(*                                                                         *)
(* A JSON / Python value is a record [k, s, t]: k its kind, s its text     *)
(* (the string's content, the number's digits, the raw tokens of a list or *)
(* an object), t its Python truth value.                                   *)
(***************************************************************************)
EXTENDS Integers, Sequences, FiniteSets, TLC

(* ------------------------------------------------------------------ *)
(* Python str operations                                               *)
(* ------------------------------------------------------------------ *)

\* characters str.strip() removes
Whitespace == {" ", "\n", "\t", "\r"}

UpperLetters == <<"A","B","C","D","E","F","G","H","I","J","K","L","M",
                  "N","O","P","Q","R","S","T","U","V","W","X","Y","Z">>
LowerLetters == <<"a","b","c","d","e","f","g","h","i","j","k","l","m",
                  "n","o","p","q","r","s","t","u","v","w","x","y","z">>

LowerChar(c) ==
    IF \E i \in DOMAIN UpperLetters : UpperLetters[i] = c
    THEN LowerLetters[CHOOSE i \in DOMAIN UpperLetters : UpperLetters[i] = c]
    ELSE c

\* str.lower()
Lower(s) == [i \in 1..Len(s) |-> LowerChar(s[i])]

RECURSIVE LStrip(_)
LStrip(s) == IF s = <<>> \/ Head(s) \notin Whitespace THEN s ELSE LStrip(Tail(s))

RECURSIVE RStrip(_)
RStrip(s) ==
    IF s = <<>> \/ s[Len(s)] \notin Whitespace THEN s
    ELSE RStrip(SubSeq(s, 1, Len(s) - 1))

\* str.strip()
Strip(s) == RStrip(LStrip(s))

\* sub in s
Contains(s, sub) ==
    \E i \in 1..(Len(s) - Len(sub) + 1) : SubSeq(s, i, i + Len(sub) - 1) = sub

\* a slice that stops one character early
PrefixOffByOne(s, n) == SubSeq(s, 1, IF Len(s) < n - 1 THEN Len(s) ELSE n - 1)

\* s[:n]
Prefix(s, n) == SubSeq(s, 1, IF Len(s) < n THEN Len(s) ELSE n)

\* s.split("\n\n"): left to right, non-overlapping
RECURSIVE SplitBlank(_)
SplitBlank(s) ==
    LET hits == {i \in 1..(Len(s) - 1) : s[i] = "\n" /\ s[i + 1] = "\n"}
    IN  IF hits = {} THEN <<s>>
        ELSE LET i == CHOOSE h \in hits : \A g \in hits : h <= g
             IN  <<SubSeq(s, 1, i - 1)>> \o SplitBlank(SubSeq(s, i + 2, Len(s)))

\* s.replace("\n", "<br>")
ReplaceNewlines(s) == [i \in 1..Len(s) |-> IF s[i] = "\n" THEN "<br>" ELSE s[i]]

\* sep.join(parts)
RECURSIVE Join(_, _)
Join(sep, parts) ==
    IF parts = <<>> THEN <<>>
    ELSE IF Len(parts) = 1 THEN parts[1]
    ELSE parts[1] \o sep \o Join(sep, Tail(parts))

(* ------------------------------------------------------------------ *)
(* Python / JSON values                                                *)
(* ------------------------------------------------------------------ *)

None == [k |-> "null", s |-> <<>>, t |-> FALSE]
Str(x) == [k |-> "str", s |-> x, t |-> x # <<>>]
Bool(b) == [k |-> "bool", s |-> <<IF b THEN "true" ELSE "false">>, t |-> b]

\* Python's `a or b`
Or(a, b) == IF a.t THEN a ELSE b

\* dict.get(key): None when the key is missing
Get(d, key) == IF key \in DOMAIN d THEN d[key] ELSE None

\* d[key] = v
Put(d, key, v) == [x \in DOMAIN d \cup {key} |-> IF x = key THEN v ELSE d[x]]

EmptyDict == [x \in {} |-> None]

(* ------------------------------------------------------------------ *)
(* json.loads on a token text                                          *)
(* ------------------------------------------------------------------ *)

Digits == {"0", "1", "2", "3", "4", "5", "6", "7", "8", "9"}

\* control characters json.loads rejects inside a string literal
ControlChars == {"\n", "\t", "\r"}

\* the escapes of a string literal and what they decode to
Unescape(c) ==
    CASE c = "\\n" -> "\n"
      [] c = "\\t" -> "\t"
      [] c = "\\\"" -> "\""
      [] OTHER -> c

\* result of decoding one value: ok, the value v, its members m when it is
\* an object, its elements items when it is an array, and the index next
\* of the first token after it
Decoded(v, m, items, next) ==
    [ok |-> TRUE, v |-> v, m |-> m, items |-> items, next |-> next]

DecodeError ==
    [ok |-> FALSE, v |-> None, m |-> EmptyDict, items |-> <<>>, next |-> 0]

RECURSIVE SkipWs(_, _)
SkipWs(s, i) ==
    IF i > Len(s) \/ s[i] \notin Whitespace THEN i ELSE SkipWs(s, i + 1)

RECURSIVE EndOfNumber(_, _)
EndOfNumber(s, i) ==
    IF i > Len(s) \/ s[i] \notin Digits THEN i ELSE EndOfNumber(s, i + 1)

ParseString(s, i) ==
    LET closes == {j \in (i + 1)..Len(s) : s[j] = "\""}
    IN  IF closes = {} THEN DecodeError
        ELSE LET j == CHOOSE c \in closes : \A d \in closes : c <= d
                 body == SubSeq(s, i + 1, j - 1)
             IN  IF \E n \in 1..Len(body) : body[n] \in ControlChars \cup {"\\"}
                 THEN DecodeError
                 ELSE Decoded(Str([n \in 1..Len(body) |-> Unescape(body[n])]),
                              EmptyDict, <<>>, j + 1)

ParseNumber(s, i) ==
    LET e == EndOfNumber(s, i)
        digits == SubSeq(s, i, e - 1)
    IN  IF Len(digits) > 1 /\ digits[1] = "0" THEN DecodeError
        ELSE Decoded([k |-> "num", s |-> digits, t |-> digits # <<"0">>],
                     EmptyDict, <<>>, e)

RECURSIVE ParseValue(_, _)
RECURSIVE ParseElems(_, _, _, _)
RECURSIVE ParseMembers(_, _, _, _)

\* the elements of an array opened at token `open`, from token i on
ParseElems(s, open, i, items) ==
    LET j == SkipWs(s, i)
    IN  IF j > Len(s) THEN DecodeError
        ELSE IF s[j] = "]" /\ items = <<>>
        THEN Decoded([k |-> "list", s |-> SubSeq(s, open, j), t |-> FALSE],
                     EmptyDict, <<>>, j + 1)
        ELSE LET e == ParseValue(s, j)
                 n == SkipWs(s, e.next)
                 all == Append(items, e.v)
             IN  IF ~e.ok \/ n > Len(s) THEN DecodeError
                 ELSE IF s[n] = "," THEN ParseElems(s, open, n + 1, all)
                 ELSE IF s[n] = "]"
                 THEN Decoded([k |-> "list", s |-> SubSeq(s, open, n), t |-> TRUE],
                              EmptyDict, all, n + 1)
                 ELSE DecodeError

\* the members of an object opened at token `open`, from token i on
ParseMembers(s, open, i, m) ==
    LET j == SkipWs(s, i)
    IN  IF j > Len(s) THEN DecodeError
        ELSE IF s[j] = "}" /\ m = EmptyDict
        THEN Decoded([k |-> "dict", s |-> SubSeq(s, open, j), t |-> FALSE],
                     EmptyDict, <<>>, j + 1)
        ELSE IF s[j] # "\"" THEN DecodeError
        ELSE LET key == ParseString(s, j)
                 c == SkipWs(s, key.next)
             IN  IF ~key.ok \/ c > Len(s) THEN DecodeError
                 ELSE IF s[c] # ":" THEN DecodeError
                 ELSE LET e == ParseValue(s, c + 1)
                          n == SkipWs(s, e.next)
                          all == Put(m, key.v.s, e.v)
                      IN  IF ~e.ok \/ n > Len(s) THEN DecodeError
                          ELSE IF s[n] = "," THEN ParseMembers(s, open, n + 1, all)
                          ELSE IF s[n] = "}"
                          THEN Decoded([k |-> "dict", s |-> SubSeq(s, open, n),
                                        t |-> TRUE], all, <<>>, n + 1)
                          ELSE DecodeError

ParseValue(s, i0) ==
    LET i == SkipWs(s, i0)
    IN  IF i > Len(s) THEN DecodeError
        ELSE CASE s[i] = "\"" -> ParseString(s, i)
               [] s[i] = "null" -> Decoded(None, EmptyDict, <<>>, i + 1)
               [] s[i] = "true" -> Decoded(Bool(TRUE), EmptyDict, <<>>, i + 1)
               [] s[i] = "false" -> Decoded(Bool(FALSE), EmptyDict, <<>>, i + 1)
               [] s[i] \in Digits -> ParseNumber(s, i)
               [] s[i] = "[" -> ParseElems(s, i, i + 1, <<>>)
               [] s[i] = "{" -> ParseMembers(s, i, i + 1, EmptyDict)
               [] OTHER -> DecodeError

\* json.loads(content): one value, nothing but whitespace after it
json_loads(content) ==
    LET r == ParseValue(content, 1)
    IN  IF r.ok /\ SkipWs(content, r.next) > Len(content) THEN r ELSE DecodeError


(* ------------------------------------------------------------------ *)
(* Program constants and the two task handlers                         *)
(* ------------------------------------------------------------------ *)

\* email_text[:500], body[:500]
SummaryLimit == 500

BASE_SYSTEM_PROMPT == <<"You are Daver AI Clone, ... Be clear, calm, and helpful.">>

JSON_INSTRUCTIONS == <<"\n", "Return ONLY valid JSON with this exact structure: ...", "\n">>

\* the keys the loop of handle_gmail_lead_reply ensures, in its order
ExpectedKeys ==
    << <<"name">>, <<"email">>, <<"phone">>, <<"lead_type">>, <<"priority">>,
       <<"summary">>, <<"reply">> >>

\* the default the loop gives each key
KeyDefault(key, email_text) ==
    CASE key = <<"lead_type">> -> Str(<<"Other">>)
      [] key = <<"priority">> -> Str(<<"Medium">>)
      [] key = <<"summary">> -> Str(Prefix(email_text, SummaryLimit))
      [] key = <<"reply">> -> Str(<<>>)
      [] OTHER -> None

\* the reply of the record returned when the completion call raised
CannedLeadReply ==
    <<"Hi there,", "\n", "\n",
      "Thanks for reaching out. I saw your note and will follow up shortly.",
      "\n", "\n", "Cheers,", "\n", "David", "\n">>

\* a Python value a handler holds: the value v, its members m when it is a
\* dict, its elements items when it is a list
PyDict(m) == [v |-> [k |-> "dict", s |-> <<>>, t |-> m # EmptyDict],
              m |-> m, items |-> <<>>]

\* what a call of a function gives: a value, or an exception propagating
Returned(p) == [raised |-> FALSE, exc |-> "", v |-> p.v, m |-> p.m, items |-> p.items]
Raised(exc) == [raised |-> TRUE, exc |-> exc, v |-> None, m |-> EmptyDict, items |-> <<>>]

\* messages=[system, user] of handle_gmail_lead_reply
LeadMessages(email_text) ==
    << [role |-> "system", content |-> BASE_SYSTEM_PROMPT],
       [role |-> "user",
        content |-> <<"\n", "Extract lead details from this email and write a reply in Dave's style.",
                      "\n", "\n">> \o JSON_INSTRUCTIONS
                    \o <<"\n", "\n", "Email content:", "\n", "\"\"\" ", "\n">>
                    \o email_text \o <<"\n", "\"\"\" ", "\n">>] >>

\* the failure record without its error field
OpenAIErrorRecordNoError(email_text, msg) ==
    (<<"name">> :> None) @@ (<<"email">> :> None) @@ (<<"phone">> :> None)
    @@ (<<"lead_type">> :> Str(<<"Other">>))
    @@ (<<"priority">> :> Str(<<"Medium">>))
    @@ (<<"summary">> :> Str(Prefix(email_text, SummaryLimit)))
    @@ (<<"reply">> :> Str(CannedLeadReply))

\* the record returned when the completion call raised
OpenAIErrorRecord(email_text, msg) ==
    (<<"name">> :> None) @@ (<<"email">> :> None) @@ (<<"phone">> :> None)
    @@ (<<"lead_type">> :> Str(<<"Other">>))
    @@ (<<"priority">> :> Str(<<"Medium">>))
    @@ (<<"summary">> :> Str(Prefix(email_text, SummaryLimit)))
    @@ (<<"reply">> :> Str(CannedLeadReply))
    @@ (<<"error">> :> Str(<<"openai_error: ">> \o msg))

\* a fallback that throws the model's text away
ParseFallbackEmptyReply(email_text, content) ==
    (<<"name">> :> None) @@ (<<"email">> :> None) @@ (<<"phone">> :> None)
    @@ (<<"lead_type">> :> Str(<<"Other">>))
    @@ (<<"priority">> :> Str(<<"Medium">>))
    @@ (<<"summary">> :> Str(Prefix(email_text, SummaryLimit)))
    @@ (<<"reply">> :> Str(<<>>))

\* the dict `parsed` becomes when json.loads raised
ParseFallback(email_text, content) ==
    (<<"name">> :> None) @@ (<<"email">> :> None) @@ (<<"phone">> :> None)
    @@ (<<"lead_type">> :> Str(<<"Other">>))
    @@ (<<"priority">> :> Str(<<"Medium">>))
    @@ (<<"summary">> :> Str(Prefix(email_text, SummaryLimit)))
    @@ (<<"reply">> :> Str(content))

\* `key in parsed` is defined for a dict (its keys), a list (its elements)
\* and a str (substring); for None, a number or a bool it raises TypeError
KeyTestRaises(p) == p.v.k \notin {"dict", "list", "str"}

KeyIn(key, p) ==
    CASE p.v.k = "dict" -> key \in DOMAIN p.m
      [] p.v.k = "list" ->
            \E i \in 1..Len(p.items) : p.items[i].k = "str" /\ p.items[i].s = key
      [] p.v.k = "str" -> Contains(p.v.s, key)
      [] OTHER -> FALSE

\* the loop "for key, default in [...]: if key not in parsed: parsed[key] = default"
\* from its i-th key on; r is Returned(parsed) or the exception raised so far
RECURSIVE EnsureKeys(_, _, _)
EnsureKeys(r, i, email_text) ==
    IF r.raised \/ i > Len(ExpectedKeys) THEN r
    ELSE LET key == ExpectedKeys[i]
         IN  IF KeyTestRaises(r) THEN Raised("TypeError")
             ELSE IF KeyIn(key, r) THEN EnsureKeys(r, i + 1, email_text)
             ELSE IF r.v.k # "dict" THEN Raised("TypeError")
             ELSE EnsureKeys(
                     Returned(PyDict(Put(r.m, key, KeyDefault(key, email_text)))),
                     i + 1, email_text)

\* handle_gmail_lead_reply(email_text), given how its call of call_openai ended
handle_gmail_lead_reply(email_text, outcome) ==
    IF outcome.raised
    THEN Returned(PyDict(OpenAIErrorRecord(email_text, outcome.msg)))
    ELSE LET d == json_loads(outcome.content)
             parsed == IF d.ok THEN [v |-> d.v, m |-> d.m, items |-> d.items]
                       ELSE PyDict(ParseFallback(email_text, outcome.content))
         IN  EnsureKeys(Returned(parsed), 1, email_text)

\* messages=[system, user] of handle_generic_task
GenericMessages(task_type, body, meta) ==
    LET from_name == Or(Get(meta, <<"from_name">>), Str(<<>>))
        from_email == Or(Get(meta, <<"from_email">>), Str(<<>>))
        subject == Or(Get(meta, <<"subject">>), Str(<<>>))
        context_block ==
            Join(<<"\n">>,
                 (IF from_name.t \/ from_email.t
                  THEN << <<"From: ">> \o from_name.s \o <<" <">> \o from_email.s \o <<">">> >>
                  ELSE <<>>)
                 \o (IF subject.t THEN << <<"Subject: ">> \o subject.s >> ELSE <<>>)
                 \o (IF task_type.t THEN << <<"Task type: ">> \o task_type.s >> ELSE <<>>))
    IN  << [role |-> "system", content |-> BASE_SYSTEM_PROMPT],
           [role |-> "user",
            content |-> <<"\n">> \o context_block
                        \o <<"\n", "\n", "Here is the text to work with:", "\n", "\"\"\" ", "\n">>
                        \o body
                        \o <<"\n", "\"\"\" ", "\n", "\n", "Task: ...", "\n">>] >>

\* the reply of handle_generic_task when the completion call raised
GenericErrorReply(msg) ==
    <<"Hi there,", "\n", "\n",
      "Thanks for your message. I will review it and follow up with next steps.",
      "\n", "\n", "Cheers,", "\n", "David", "\n", "(Error details: ">> \o msg \o <<")">>

\* handle_generic_task(task_type, body, meta), given how its call ended
handle_generic_task(task_type, body, meta, outcome) ==
    LET reply_text == IF outcome.raised THEN GenericErrorReply(outcome.msg)
                      ELSE outcome.content
    IN  Returned(PyDict(
            (<<"name">> :> Get(meta, <<"from_name">>))
            @@ (<<"email">> :> Get(meta, <<"from_email">>))
            @@ (<<"phone">> :> Get(meta, <<"phone">>))
            @@ (<<"lead_type">> :> Str(<<"Other">>))
            @@ (<<"priority">> :> Str(<<"Medium">>))
            @@ (<<"summary">> :> Str(Prefix(body, SummaryLimit)))
            @@ (<<"reply">> :> Str(reply_text))))


(* ------------------------------------------------------------------ *)
(* The text-to-HTML conversion and the Harrison template of /lead      *)
(* ------------------------------------------------------------------ *)

Keyword == <<"h", "a", "r", "r", "i", "s", "o", "n">>

\* a test that forgets to lower the subject
IsHarrisonCaseSensitive(form_name, subject, body) ==
    \/ Contains(form_name, Keyword)
    \/ Contains(subject, Keyword)
    \/ Contains(Lower(body), Keyword)

\* is_harrison, from the lowered form name, the subject and the body
IsHarrison(form_name, subject, body) ==
    \/ Contains(form_name, Keyword)
    \/ Contains(Lower(subject), Keyword)
    \/ Contains(Lower(body), Keyword)

\* [p.strip() for p in text.split("\n\n") if p.strip()]
Paragraphs(text) ==
    LET kept == SelectSeq(SplitBlank(text), LAMBDA p : Strip(p) # <<>>)
    IN  [i \in 1..Len(kept) |-> Strip(kept[i])]

\* reply_html of a non-empty reply_text
ReplyToHtml(reply_text) ==
    LET text == Strip(reply_text)
        paragraphs == Paragraphs(text)
    IN  IF Len(paragraphs) > 1
        THEN <<"<p>">>
             \o Join(<<"</p>", "<p>">>,
                     [i \in 1..Len(paragraphs) |-> ReplaceNewlines(paragraphs[i])])
             \o <<"</p>">>
        ELSE <<"<p>">> \o ReplaceNewlines(text) \o <<"</p>">>

\* reply_html "if GPT returned nothing"
FallbackHtml(from_name, subject) ==
    <<"<p>", "Hi ">> \o from_name \o <<",", "</p>", "\n",
      "<p>", "Thanks for your message about ", "<b>">>
    \o (IF subject # <<>> THEN subject ELSE <<"your inquiry">>)
    \o <<"</b>", ". I will review the details and follow up with next steps.", "</p>", "\n",
         "<p>", "Cheers,", "<br>", "\n", "David Reimers PREC*", "<br>", "\n",
         "Royal LePage West Real Estate Services", "</p>">>

\* lines 338-356: reply_html from reply_text (a str here)
RenderReply(reply_text, from_name, subject) ==
    IF reply_text # <<>> THEN ReplyToHtml(reply_text)
    ELSE FallbackHtml(from_name, subject)

HarrisonParagraphs ==
    <<"Thanks so much for reaching out through my website ... unique getaway spots.",
      "To make sure I send you the most relevant updates, ... match your goals.",
      "You can reach me directly at 604-340-4400, ... I'll give you a call.",
      "Looking forward to connecting,">>

HarrisonHtml(first_name) ==
    <<"<p>", "Hi ">> \o first_name \o <<",", "</p>", "\n",
      "<p>", HarrisonParagraphs[1], "</p>", "\n",
      "<p>", HarrisonParagraphs[2], "</p>", "\n",
      "<p>", HarrisonParagraphs[3], "</p>", "\n",
      "<p>", HarrisonParagraphs[4], "</p>", "\n",
      "<p>", "Cheers,", "<br>", "\n", "David", "</p>">>

HarrisonReply(first_name) ==
    <<"Hi ">> \o first_name \o <<",", "\n", "\n",
      HarrisonParagraphs[1], "\n", "\n",
      HarrisonParagraphs[2], "\n", "\n",
      HarrisonParagraphs[3], "\n", "\n",
      HarrisonParagraphs[4], "\n", "\n",
      "Cheers,", "\n", "David">>

\* the result of the Harrison branch
HarrisonResult(first_name, from_email, phone, body, source) ==
    (<<"name">> :> Str(first_name)) @@ (<<"email">> :> from_email)
    @@ (<<"phone">> :> phone)
    @@ (<<"lead_type">> :> Str(<<"Buyer">>))
    @@ (<<"priority">> :> Str(<<"Medium">>))
    @@ (<<"summary">> :> Str(Prefix(body, SummaryLimit)))
    @@ (<<"reply">> :> Str(HarrisonReply(first_name)))
    @@ (<<"reply_html">> :> Str(HarrisonHtml(first_name)))
    @@ (<<"source">> :> source)

\* a merge that lets the caller's value win
PreferCaller(extracted, caller) == Or(caller, extracted)

\* result.get(key) or <the caller's value>
PreferExtracted(extracted, caller) == Or(extracted, caller)

\* lines 329-363 of lead_endpoint: the merge of the caller's values into the
\* result of handle_gmail_lead_reply, and reply_html
MergeLead(result, from_name, from_email, subject, phone, source) ==
    IF result.raised THEN result
    ELSE IF result.v.k # "dict" THEN Raised("AttributeError")
    ELSE LET result_name == PreferExtracted(Get(result.m, <<"name">>), from_name)
             result_email == PreferExtracted(Get(result.m, <<"email">>), from_email)
             result_phone == PreferExtracted(Get(result.m, <<"phone">>), phone)
             reply_text == Or(Get(result.m, <<"reply">>), Str(<<>>))
         IN  IF reply_text.t /\ reply_text.k # "str" THEN Raised("AttributeError")
             ELSE LET reply_html == RenderReply(reply_text.s, from_name.s, subject.s)
                      m1 == Put(result.m, <<"name">>, result_name)
                      m2 == Put(m1, <<"email">>, result_email)
                      m3 == Put(m2, <<"phone">>, result_phone)
                      m4 == Put(m3, <<"reply_html">>, Str(reply_html))
                      m5 == Put(m4, <<"source">>, Or(Get(m4, <<"source">>), source))
                  IN  Returned(PyDict(m5))


(* ------------------------------------------------------------------ *)
(* State                                                               *)
(* ------------------------------------------------------------------ *)

VARIABLES
    INCOMING_API_KEY,  \* the shared secret read at startup, <<>> when unset
    pc,                \* "ready", "in_call" (inside call_openai), "responded"
    route,             \* "/" or "/lead" once a request has arrived
    request,           \* the request: X-API-Key header, JSON data, its form_data
    locals,            \* the handler's local variables while call_openai runs
    messages,          \* the messages given to the completion service
    calls,             \* how many times the completion service was called
    completion,        \* how the call of call_openai ended
    response           \* the response: status, JSON payload, or the exception

vars == <<INCOMING_API_KEY, pc, route, request, locals, messages, calls, completion,
         response>>

NoRequest == [api_key |-> None, data |-> EmptyDict, form_data |-> EmptyDict]

NoLocals ==
    [handler |-> "", body |-> <<>>, task_type |-> None, meta |-> EmptyDict,
     from_name |-> None, from_email |-> None, subject |-> None, phone |-> None,
     source |-> None]

NoOutcome == [raised |-> FALSE, msg |-> <<>>, content |-> <<>>]

NoResult == [raised |-> FALSE, exc |-> "", v |-> None, m |-> EmptyDict, items |-> <<>>]

NoResponse == [status |-> 0, exc |-> "", json |-> EmptyDict, result |-> NoResult]

\* jsonify({"error": text}), status
ErrorResponse(status, text) ==
    [status |-> status, exc |-> "", json |-> (<<"error">> :> Str(<<text>>)),
     result |-> NoResult]

\* an exception leaving the handler: Flask answers 500
ExceptionResponse(exc) ==
    [status |-> 500, exc |-> exc, json |-> EmptyDict, result |-> NoResult]

\* jsonify(result), 200 of lead_endpoint
LeadResponse(result) ==
    IF result.raised THEN ExceptionResponse(result.exc)
    ELSE [status |-> 200, exc |-> "", json |-> result.m, result |-> result]

\* jsonify(out), 200 of process_lead_or_task; the payload's meta and result
\* are kept whole in locals.meta and in the field result
RootResponse(task_type, body, result) ==
    IF result.raised THEN ExceptionResponse(result.exc)
    ELSE [status |-> 200, exc |-> "",
          json |-> (<<"timestamp">> :> Str(<<"utcnow">>))
                   @@ (<<"task_type">> :> task_type)
                   @@ (<<"input_preview">> :> Str(Prefix(body, SummaryLimit)))
                   @@ (<<"meta">> :> [k |-> "dict", s |-> <<>>, t |-> TRUE])
                   @@ (<<"result">> :> result.v),
          result |-> result]

\* INCOMING_API_KEY and request.headers.get("X-API-Key") != INCOMING_API_KEY
Unauthorized(req) ==
    /\ INCOMING_API_KEY # <<>>
    /\ ~(req.api_key.k = "str" /\ req.api_key.s = INCOMING_API_KEY)

\* the body taken without .strip()
BodyOfUnstripped(data) ==
    Or(Or(Get(data, <<"body">>), Get(data, <<"body_text">>)), Str(<<>>)).s

\* body = (data.get("body") or data.get("body_text") or "").strip()
BodyOf(data) ==
    Strip(Or(Or(Get(data, <<"body">>), Get(data, <<"body_text">>)), Str(<<>>)).s)

MissingBody == "missing 'body' or 'body_text' in JSON"

Init ==
    /\ INCOMING_API_KEY \in {<<>>, <<"s", "3">>}
    /\ pc = "ready"
    /\ route = ""
    /\ request = NoRequest
    /\ locals = NoLocals
    /\ messages = <<>>
    /\ calls = 0
    /\ completion = NoOutcome
    /\ response = NoResponse

Respond(r) ==
    /\ pc' = "responded"
    /\ response' = r
    /\ UNCHANGED <<locals, messages, calls, completion>>

\* the handler enters call_openai with these locals and messages
EnterCall(l, msgs) ==
    /\ pc' = "in_call"
    /\ locals' = l
    /\ messages' = msgs
    /\ calls' = calls + 1
    /\ UNCHANGED <<completion, response>>

(* ------------------------------------------------------------------ *)
(* The handlers up to their response or their call of call_openai      *)
(* ------------------------------------------------------------------ *)

\* POST /
process_lead_or_task(Requests) ==
    /\ pc = "ready"
    /\ \E req \in Requests :
        /\ route' = "/"
        /\ request' = req
        /\ IF Unauthorized(req) THEN Respond(ErrorResponse(401, "unauthorized"))
           ELSE LET data == req.data
                    body == BodyOf(data)
                    task_type == Or(Get(data, <<"task_type">>), Str(<<"gmail_lead_reply">>))
                    meta == (<<"from_name">> :> Get(data, <<"from_name">>))
                            @@ (<<"from_email">> :> Get(data, <<"from_email">>))
                            @@ (<<"subject">> :> Get(data, <<"subject">>))
                            @@ (<<"phone">> :> Get(data, <<"phone">>))
                            @@ (<<"source">> :> Get(data, <<"source">>))
                    l == [NoLocals EXCEPT !.body = body, !.task_type = task_type,
                                          !.meta = meta]
                IN  IF body = <<>> THEN Respond(ErrorResponse(400, MissingBody))
                    ELSE IF task_type.s = <<"gmail_lead_reply">>
                    THEN EnterCall([l EXCEPT !.handler = "handle_gmail_lead_reply"],
                                   LeadMessages(body))
                    ELSE EnterCall([l EXCEPT !.handler = "handle_generic_task"],
                                   GenericMessages(task_type, body, meta))
    /\ UNCHANGED INCOMING_API_KEY

\* POST /lead
lead_endpoint(Requests) ==
    /\ pc = "ready"
    /\ \E req \in Requests :
        /\ route' = "/lead"
        /\ request' = req
        /\ IF Unauthorized(req) THEN Respond(ErrorResponse(401, "unauthorized"))
           ELSE LET data == req.data
                    body == BodyOf(data)
                    from_name == Or(Get(data, <<"from_name">>), Str(<<"there">>))
                    from_email == Get(data, <<"from_email">>)
                    subject == Or(Get(data, <<"subject">>), Str(<<>>))
                    phone == Get(data, <<"phone">>)
                    source == Or(Get(data, <<"source">>), Str(<<"gmail">>))
                    form_data == req.form_data
                    form_name == Lower(Or(Get(form_data, <<"form_name">>), Str(<<>>)).s)
                    first_name_from_form == Get(form_data, <<"first_name">>)
                    first_name ==
                        Strip(Or(Or(first_name_from_form, from_name), Str(<<"there">>)).s)
                IN  IF body = <<>> THEN Respond(ErrorResponse(400, MissingBody))
                    ELSE IF IsHarrison(form_name, subject.s, body)
                    THEN Respond(LeadResponse(Returned(PyDict(
                            HarrisonResult(first_name, from_email, phone, body, source)))))
                    ELSE EnterCall(
                            [NoLocals EXCEPT !.handler = "handle_gmail_lead_reply",
                                             !.body = body, !.from_name = from_name,
                                             !.from_email = from_email,
                                             !.subject = subject, !.phone = phone,
                                             !.source = source],
                            LeadMessages(body))
    /\ UNCHANGED INCOMING_API_KEY

(* ------------------------------------------------------------------ *)
(* call_openai ends, and the handler runs to its response              *)
(* ------------------------------------------------------------------ *)

CallReturned(content) == [raised |-> FALSE, msg |-> <<>>, content |-> content]
CallRaised(msg) == [raised |-> TRUE, msg |-> msg, content |-> <<>>]

\* the rest of the handler after call_openai ended with `outcome`
Resume(outcome) ==
    LET result ==
            IF locals.handler = "handle_gmail_lead_reply"
            THEN handle_gmail_lead_reply(locals.body, outcome)
            ELSE handle_generic_task(locals.task_type, locals.body, locals.meta, outcome)
    IN  IF route = "/lead"
        THEN LeadResponse(MergeLead(result, locals.from_name, locals.from_email,
                                    locals.subject, locals.phone, locals.source))
        ELSE RootResponse(locals.task_type, locals.body, result)

\* resp.choices[0].message.content comes back
call_openai_returns(Contents) ==
    /\ pc = "in_call"
    /\ \E content \in Contents :
        /\ pc' = "responded"
        /\ completion' = CallReturned(content)
        /\ response' = Resume(CallReturned(content))
    /\ UNCHANGED <<INCOMING_API_KEY, route, request, locals, messages, calls>>

\* client.chat.completions.create raises
call_openai_raises(Messages) ==
    /\ pc = "in_call"
    /\ \E msg \in Messages :
        /\ pc' = "responded"
        /\ completion' = CallRaised(msg)
        /\ response' = Resume(CallRaised(msg))
    /\ UNCHANGED <<INCOMING_API_KEY, route, request, locals, messages, calls>>


(* ------------------------------------------------------------------ *)
(* Inputs                                                              *)
(* ------------------------------------------------------------------ *)

\* longest run of blanks put before and after a body
MaxPad == 1

\* how far past SummaryLimit - 1 the long bodies go
MaxOver == 2

Rep(c, n) == [i \in 1..n |-> c]

\* n characters, the alphabet over and over
LongText(n) == [i \in 1..n |-> LowerLetters[((i - 1) % 26) + 1]]

Quote == "\""

JsonString(x) == <<Quote>> \o x \o <<Quote>>

JsonMember(key, value) == JsonString(<<key>>) \o <<":", " ">> \o value

JsonObject(members) == <<"{">> \o Join(<<",", " ">>, members) \o <<"}">>

\* a request: the header, and data with these fields (None: absent or null).
\* The fields are strings or absent, as the interface documents them.
Request(api_key, body, body_text, task_type, from_name, from_email, subject, phone, source, form_data) ==
    [api_key |-> api_key,
     data |-> (<<"body">> :> body) @@ (<<"body_text">> :> body_text)
              @@ (<<"task_type">> :> task_type) @@ (<<"from_name">> :> from_name)
              @@ (<<"from_email">> :> from_email) @@ (<<"subject">> :> subject)
              @@ (<<"phone">> :> phone) @@ (<<"source">> :> source),
     form_data |-> form_data]

FormData(form_name, first_name) ==
    (<<"form_name">> :> form_name) @@ (<<"first_name">> :> first_name)

ApiKeys == {None, Str(<<"s", "3">>)}

BodyCores ==
    {<<>>, <<"h", "i">>, <<"H", "a", "R", "R", "i", "s", "o", "n">>}
    \cup {LongText(SummaryLimit - 1 + n) : n \in 0..MaxOver}

IntakeBodies ==
    {None} \cup {Str(Rep(" ", l) \o core \o Rep("\n", r)) :
                    core \in BodyCores, l \in 0..MaxPad, r \in 0..MaxPad}

IntakeBodyTexts ==
    {None, Str(<<" ">>), Str(<<"a", " ", "h", "a", "r", "r", "i", "s", "o", "n">>)}

IntakeSubjects ==
    {None, Str(<<"R", "e", ":", " ", "H", "A", "R", "R", "I", "S", "O", "N">>),
     Str(<<"H", "e", "l", "l", "o">>)}

IntakeForms ==
    {EmptyDict,
     FormData(Str(<<"H", "a", "r", "r", "i", "s", "o", "n", " ", "U", "p">>), None),
     FormData(Str(<<"C", "o", "n", "t", "a", "c", "t">>), Str(<<"S", "a", "m">>))}

TaskTypes == {None, Str(<<"gmail_lead_reply">>), Str(<<"summarize">>)}

\* requests to /lead that vary the body, the subject and the form
IntakeLeadRequests ==
    {Request(k, b, bt, None, fn, None, sj, None, None, fd) :
        k \in ApiKeys, b \in IntakeBodies, bt \in IntakeBodyTexts,
        fn \in {None, Str(<<"P", "a", "t">>)}, sj \in IntakeSubjects, fd \in IntakeForms}

\* requests to / that vary the body and the task
IntakeRootRequests ==
    {Request(k, b, bt, tt, fn, None, None, None, None, EmptyDict) :
        k \in ApiKeys, b \in IntakeBodies, bt \in IntakeBodyTexts, tt \in TaskTypes,
        fn \in {None, Str(<<"P", "a", "t">>)}}

FullObject ==
    JsonObject(<< JsonMember("name", JsonString(<<"J", "o">>)),
                  JsonMember("email", JsonString(<<"j", "@", "x">>)),
                  JsonMember("phone", JsonString(<<"6", "0", "4">>)),
                  JsonMember("lead_type", JsonString(<<"Buyer">>)),
                  JsonMember("priority", JsonString(<<"High">>)),
                  JsonMember("summary", JsonString(<<"Wants a condo">>)),
                  JsonMember("reply", JsonString(<<"Hi.", "\\n", "\\n", "Thanks.">>)) >>)

IntakeContents ==
    {FullObject,
     JsonObject(<< JsonMember("name", <<"null">>) >>),
     <<"n", "o", "t", " ", "j", "s", "o", "n">>,
     <<" ", "Hi.", "\n", "\n", "Thanks.", "\n">>,
     <<"{", Quote, "name", Quote, ":">>}

FailureMessages == {<<"Request timed out.">>, <<>>}

Next ==
    \/ process_lead_or_task(IntakeRootRequests)
    \/ lead_endpoint(IntakeLeadRequests)
    \/ call_openai_returns(IntakeContents)
    \/ call_openai_raises(FailureMessages)

Spec == Init /\ [][Next]_vars


(* ------------------------------------------------------------------ *)
(* Inputs that vary the completion's answer and the caller's metadata  *)
(* ------------------------------------------------------------------ *)

CallerValues(x) == {None, Str(<<>>), Str(x)}

ExtractBodies == {Str(<<"h", "i">>), Str(<<" ", "I", " ", "s", "e", "l", "l", "\n">>)}

\* requests to /lead that vary what the caller says of the sender
ExtractLeadRequests ==
    {Request(k, b, None, None, fn, fe, sj, ph, src, EmptyDict) :
        k \in ApiKeys, b \in ExtractBodies,
        fn \in CallerValues(<<"P", "a", "t">>),
        fe \in CallerValues(<<"p", "@", "x">>),
        ph \in CallerValues(<<"7", "7", "8">>),
        sj \in {None, Str(<<"H", "e", "l", "l", "o">>)},
        src \in {None, Str(<<"web">>)}}

\* requests to /
ExtractRootRequests ==
    {Request(k, b, None, tt, fn, fe, sj, None, None, EmptyDict) :
        k \in ApiKeys, b \in ExtractBodies, tt \in {None, Str(<<"summarize">>)},
        fn \in CallerValues(<<"P", "a", "t">>),
        fe \in CallerValues(<<"p", "@", "x">>),
        sj \in {None, Str(<<"H", "e", "l", "l", "o">>)}}

SevenKeysText ==
    <<"name", " ", "email", " ", "phone", " ", "lead_type", " ", "priority", " ",
      "summary", " ", "reply">>

\* an object with the seven keys, name, email, phone and reply as given
ObjectWith(name, email, phone, reply) ==
    JsonObject(<< JsonMember("name", name), JsonMember("email", email),
                  JsonMember("phone", phone),
                  JsonMember("lead_type", JsonString(<<"Seller">>)),
                  JsonMember("priority", JsonString(<<"Low">>)),
                  JsonMember("summary", JsonString(<<"Selling a house">>)),
                  JsonMember("reply", reply) >>)

ExtractContents ==
    {\* objects
     FullObject,
     <<"\n">> \o FullObject \o <<"\n">>,
     ObjectWith(<<"null">>, <<"null">>, <<"null">>, JsonString(<<"Hi.">>)),
     ObjectWith(JsonString(<<>>), JsonString(<<>>), JsonString(<<>>),
                JsonString(<<"Hi.", "\\n", "David">>)),
     ObjectWith(<<"0">>, <<"false">>, <<"[", "]">>, JsonString(<<>>)),
     ObjectWith(<<"7">>, <<"true">>, <<"[", "1", "]">>, <<"null">>),
     ObjectWith(JsonString(<<"J", "o">>), <<"null">>, <<"null">>, JsonString(<<" ">>)),
     ObjectWith(<<"null">>, <<"null">>, <<"null">>, <<"5">>),
     ObjectWith(<<"null">>, <<"null">>, <<"null">>, <<"[", Quote, "Hi.", Quote, "]">>),
     ObjectWith(<<"null">>, <<"null">>, <<"null">>,
                <<"{", Quote, "text", Quote, ":", Quote, "Hi.", Quote, "}">>),
     <<"{", "}">>,
     JsonObject(<< JsonMember("name", JsonString(<<"J", "o">>)),
                   JsonMember("notes", JsonString(<<"call back">>)) >>),
     JsonObject(<< JsonMember("reply", JsonString(<<"Hi.">>)),
                   JsonMember("error", JsonString(<<"none">>)) >>),
     JsonObject(<< JsonMember("reply", JsonString(<<"Hi.">>)),
                   JsonMember("source", JsonString(<<"model">>)) >>),
     \* JSON that is no object
     <<"[", "]">>,
     <<"[">> \o Join(<<",">>, [i \in 1..Len(ExpectedKeys) |-> JsonString(ExpectedKeys[i])])
             \o <<"]">>,
     JsonString(<<"Hi.">>),
     JsonString(SevenKeysText),
     <<"5">>, <<"0">>, <<"null">>, <<"true">>,
     \* text that is no JSON
     <<"n", "o", "t", " ", "j", "s", "o", "n">>,
     <<>>,
     <<" ", "\n">>,
     <<"Hi.", "\n", "\n", "Thanks.", "\n">>,
     <<"{", Quote, "name", Quote, ":">>,
     <<"{", Quote, "name", Quote, ":", "null", ",", "}">>,
     FullObject \o <<"Hope this helps.">>}

NextExtract ==
    \/ process_lead_or_task(ExtractRootRequests)
    \/ lead_endpoint(ExtractLeadRequests)
    \/ call_openai_returns(ExtractContents)
    \/ call_openai_raises(FailureMessages)

SpecExtract == Init /\ [][NextExtract]_vars

(* ------------------------------------------------------------------ *)
(* The text-to-HTML conversion alone, on every short reply text        *)
(* ------------------------------------------------------------------ *)

\* longest reply text given to the conversion
MaxReplyLen == 5

ReplyAlphabet == {"a", " ", "\n"}

ReplyTexts == UNION {[1..n -> ReplyAlphabet] : n \in 0..MaxReplyLen}

\* the model answered with plain text: handle_gmail_lead_reply makes it the reply
InitRender ==
    /\ INCOMING_API_KEY = <<>>
    /\ pc = "in_call"
    /\ route = "/lead"
    /\ request = Request(None, Str(<<"h", "i">>), None, None, None, None, None, None,
                         None, EmptyDict)
    /\ locals = [NoLocals EXCEPT !.handler = "handle_gmail_lead_reply",
                                 !.body = <<"h", "i">>, !.from_name = Str(<<"there">>),
                                 !.subject = Str(<<>>), !.source = Str(<<"gmail">>)]
    /\ messages = LeadMessages(<<"h", "i">>)
    /\ calls = 1
    /\ completion = NoOutcome
    /\ response = NoResponse

NextRender == call_openai_returns(ReplyTexts)

SpecRender == InitRender /\ [][NextRender]_vars


(* ------------------------------------------------------------------ *)
(* Vocabulary of the properties                                        *)
(* ------------------------------------------------------------------ *)

SevenKeys == {ExpectedKeys[i] : i \in 1..Len(ExpectedKeys)}

\* a field a caller left out, sent as null, or sent empty or all blanks
Blank(v) == v.k = "null" \/ (v.k = "str" /\ \A i \in 1..Len(v.s) : v.s[i] \in Whitespace)

\* the body as the caller sent it: body, or body_text when body is empty
SentBody ==
    LET b == Get(request.data, <<"body">>)
        bt == Get(request.data, <<"body_text">>)
    IN  IF b.t THEN b.s ELSE IF bt.t THEN bt.s ELSE <<>>

\* the keyword occurs in text, in any letter case
OccursAnyCase(text) ==
    \E i \in 1..(Len(text) - Len(Keyword) + 1) :
        \A j \in 1..Len(Keyword) : LowerChar(text[i + j - 1]) = Keyword[j]

KeywordSent ==
    \/ OccursAnyCase(Get(request.form_data, <<"form_name">>).s)
    \/ OccursAnyCase(Get(request.data, <<"subject">>).s)
    \/ OccursAnyCase(SentBody)

Arrived == pc # "ready"

Rejected == pc = "responded" /\ response.status \in {400, 401}

\* the request got past the auth check and the body check
PassedValidation == Arrived /\ ~Rejected

Succeeded == pc = "responded" /\ response.status = 200

\* the Harrison branch answered
TemplateTaken ==
    /\ Succeeded /\ route = "/lead" /\ calls = 0
    /\ response.json[<<"lead_type">>] = Str(<<"Buyer">>)
    /\ <<"reply_html">> \in DOMAIN response.json

\* the handler answered after a completion call made by handle_gmail_lead_reply
LeadHandlerDone ==
    pc = "responded" /\ calls = 1 /\ locals.handler = "handle_gmail_lead_reply"

\* s is the first n characters of x (all of x when x is shorter)
IsFirstChars(s, x, n) ==
    /\ Len(s) <= n
    /\ Len(s) <= Len(x)
    /\ s = SubSeq(x, 1, Len(s))
    /\ (Len(x) >= n => Len(s) = n)
    /\ (Len(x) < n => Len(s) = Len(x))

\* the record handle_gmail_lead_reply returned, before lead_endpoint's merge
Extracted(key) == Get(handle_gmail_lead_reply(locals.body, completion).m, key)

(* ------------------------------------------------------------------ *)
(* C1                                                                  *)
(* ------------------------------------------------------------------ *)

\* C1: whatever the completion call did, handle_gmail_lead_reply returns a
\* record with exactly the seven keys, plus optionally error.  On POST / the
\* returned value is the response's result as it is.
C1_SevenKeysExactly ==
    (LeadHandlerDone /\ route = "/") =>
        /\ response.status = 200
        /\ response.result.v.k = "dict"
        /\ SevenKeys \subseteq DOMAIN response.result.m
        /\ DOMAIN response.result.m \subseteq SevenKeys \cup {<<"error">>}

(* ------------------------------------------------------------------ *)
(* C2                                                                  *)
(* ------------------------------------------------------------------ *)

BlankBodySent ==
    Arrived /\ Blank(Get(request.data, <<"body">>))
            /\ Blank(Get(request.data, <<"body_text">>))

RejectedEmptyBody ==
    /\ pc = "responded"
    /\ response.status = 400
    /\ DOMAIN response.json = {<<"error">>}
    /\ calls = 0
    /\ messages = <<>>

\* C2 as claimed: on / and /lead every request whose body and body_text are
\* absent, empty or blank ends rejected with status 400, the completion
\* service never called.
C2_BlankBodyAlwaysRejected400 == BlankBodySent => RejectedEmptyBody

\* C2 amended: the same, for the requests that pass the auth check (one
\* that fails it ends 401, the body never looked at); in neither case is
\* the completion service called.
C2_BlankBodyRejectedAfterAuth ==
    BlankBodySent =>
        /\ pc = "responded" /\ calls = 0 /\ messages = <<>>
        /\ (~Unauthorized(request) => RejectedEmptyBody)
        /\ (Unauthorized(request) => response.status = 401)

C2_Witness ==
    /\ route = "/lead" /\ RejectedEmptyBody
    /\ INCOMING_API_KEY # <<>>
    /\ Get(request.data, <<"body">>) = Str(<<" ", "\n">>)
    /\ Get(request.data, <<"body_text">>) = Str(<<" ">>)

(* ------------------------------------------------------------------ *)
(* C3                                                                  *)
(* ------------------------------------------------------------------ *)

\* C3: on /lead, for a request that passed validation, the Harrison branch
\* answers exactly when the keyword occurs, in any letter case, in the form
\* name, the subject or the body; then the completion service is not called,
\* and otherwise it is called exactly once.
C3_TemplateIffKeyword ==
    (route = "/lead" /\ PassedValidation) =>
        /\ (KeywordSent => TemplateTaken /\ messages = <<>>)
        /\ (~KeywordSent => ~TemplateTaken /\ calls = 1 /\ Len(messages) = 2)

\* the subject alone carries the keyword, in capitals
C3_Witness ==
    /\ TemplateTaken
    /\ OccursAnyCase(Get(request.data, <<"subject">>).s)
    /\ ~Contains(Get(request.data, <<"subject">>).s, Keyword)
    /\ ~OccursAnyCase(SentBody)
    /\ ~OccursAnyCase(Get(request.form_data, <<"form_name">>).s)

(* ------------------------------------------------------------------ *)
(* C4                                                                  *)
(* ------------------------------------------------------------------ *)

\* C4: when the completion call raises on a validated, non-template /lead
\* request, the response is a 200 whose record has lead_type "Other",
\* priority "Medium", an error carrying the failure message and the
\* non-empty canned reply.
C4_FailureAbsorbed ==
    (route = "/lead" /\ LeadHandlerDone /\ completion.raised) =>
        /\ response.status = 200
        /\ response.json[<<"lead_type">>] = Str(<<"Other">>)
        /\ response.json[<<"priority">>] = Str(<<"Medium">>)
        /\ <<"error">> \in DOMAIN response.json
        /\ response.json[<<"error">>] = Str(<<"openai_error: ">> \o completion.msg)
        /\ response.json[<<"reply">>] = Str(CannedLeadReply)
        /\ response.json[<<"reply">>].t

C4_Witness ==
    /\ route = "/lead" /\ LeadHandlerDone /\ completion.raised
    /\ completion.msg = <<"Request timed out.">>
    /\ response.status = 200
    /\ Contains(response.json[<<"error">>].s, completion.msg)

(* ------------------------------------------------------------------ *)
(* C5                                                                  *)
(* ------------------------------------------------------------------ *)

\* C5: when the completion call returned text, whatever the text, the
\* record and the /lead response have no error field.
C5_ErrorOnlyOnFailure ==
    (LeadHandlerDone /\ ~completion.raised /\ response.status = 200
        /\ response.result.v.k = "dict") =>
        <<"error">> \notin DOMAIN response.result.m

(* ------------------------------------------------------------------ *)
(* C6                                                                  *)
(* ------------------------------------------------------------------ *)

\* C6: once a request passed the auth and body checks, whatever the
\* completion call does, the handler responds with a structured result: no
\* exception leaves it.
C6_NoExceptionEscapes ==
    (pc = "responded" /\ calls = 1) => (response.status = 200 /\ response.exc = "")


(* ------------------------------------------------------------------ *)
(* C7                                                                  *)
(* ------------------------------------------------------------------ *)

\* /lead answered 200 on the path through handle_gmail_lead_reply
MergedLeadResponse == route = "/lead" /\ LeadHandlerDone /\ response.status = 200

\* the precedence rule of the claim, for an extracted value x, the caller's
\* value c and a placeholder, the caller's value counting as present when
\* `present` says so
Precedence(x, c, placeholder, present) ==
    IF x.t THEN x ELSE IF present THEN c ELSE placeholder

\* the rule with "present" read as "sent and not null"
RuleIfSent(key, from, placeholder) ==
    response.json[key] =
        Precedence(Extracted(key), Get(request.data, from), placeholder,
                   Get(request.data, from).k # "null")

\* the rule with "present" read as "sent and not empty"
RuleIfNonEmpty(key, from, placeholder) ==
    response.json[key] =
        Precedence(Extracted(key), Get(request.data, from), placeholder,
                   Get(request.data, from).t)

\* C7 as claimed: name, email and phone all follow one rule: the extracted
\* value when it is non-empty, else the caller's value when it is present,
\* else "there" for name and null for email and phone.  Stated for both
\* readings of "present"; a state that breaks this breaks the claim under
\* either reading.
C7_UniformPrecedence ==
    MergedLeadResponse =>
        \/ /\ RuleIfSent(<<"name">>, <<"from_name">>, Str(<<"there">>))
           /\ RuleIfSent(<<"email">>, <<"from_email">>, None)
           /\ RuleIfSent(<<"phone">>, <<"phone">>, None)
        \/ /\ RuleIfNonEmpty(<<"name">>, <<"from_name">>, Str(<<"there">>))
           /\ RuleIfNonEmpty(<<"email">>, <<"from_email">>, None)
           /\ RuleIfNonEmpty(<<"phone">>, <<"phone">>, None)

\* C7 amended: the extracted value wins when it is non-empty; otherwise name
\* is the caller's from_name when that is non-empty and "there" when it is
\* absent or empty, while email and phone are the caller's from_email and
\* phone as sent: null when absent, the empty string when sent empty.
C7_MergePrecedence ==
    MergedLeadResponse =>
        /\ RuleIfNonEmpty(<<"name">>, <<"from_name">>, Str(<<"there">>))
        /\ RuleIfSent(<<"email">>, <<"from_email">>, None)
        /\ RuleIfSent(<<"phone">>, <<"phone">>, None)

\* extracted name "Jo" beats from_name "Pat", extracted email null yields
\* to from_email
C7_Witness ==
    /\ MergedLeadResponse
    /\ Extracted(<<"name">>) = Str(<<"J", "o">>)
    /\ Get(request.data, <<"from_name">>) = Str(<<"P", "a", "t">>)
    /\ response.json[<<"name">>] = Str(<<"J", "o">>)
    /\ Extracted(<<"email">>) = None
    /\ response.json[<<"email">>] = Str(<<"p", "@", "x">>)
    /\ Get(request.data, <<"phone">>) = Str(<<>>)
    /\ response.json[<<"phone">>] = Str(<<>>)

(* ------------------------------------------------------------------ *)
(* C8                                                                  *)
(* ------------------------------------------------------------------ *)

\* the paragraphs of a reply text: its pieces between blank lines, trimmed,
\* the empty ones dropped
ReplyParagraphs(reply) ==
    LET pieces == SplitBlank(reply)
        kept == SelectSeq(pieces, LAMBDA p : ~Blank(Str(p)))
    IN  [i \in 1..Len(kept) |-> Strip(kept[i])]

RECURSIVE Blocks(_)
\* one <p>...</p> block per paragraph, its newlines as <br>
Blocks(paragraphs) ==
    IF paragraphs = <<>> THEN <<>>
    ELSE <<"<p>">> \o [i \in 1..Len(Head(paragraphs)) |->
                          IF Head(paragraphs)[i] = "\n" THEN "<br>"
                          ELSE Head(paragraphs)[i]]
         \o <<"</p>">> \o Blocks(Tail(paragraphs))

\* C8: on the non-template /lead path reply_html has exactly one paragraph
\* block per non-empty paragraph of the reply text, single newlines as line
\* breaks and no empty block; an empty reply text gives the default body.
C8_OneBlockPerParagraph ==
    (MergedLeadResponse /\ response.json[<<"reply">>].k = "str") =>
        LET reply == response.json[<<"reply">>].s
            html == response.json[<<"reply_html">>].s
        IN  /\ reply = <<>> => html = FallbackHtml(locals.from_name.s, locals.subject.s)
            /\ reply # <<>> => html = Blocks(ReplyParagraphs(reply))
            /\ ~Contains(html, <<"<p>", "</p>">>)

(* ------------------------------------------------------------------ *)
(* C9                                                                  *)
(* ------------------------------------------------------------------ *)

\* the completion call returned text json.loads rejects
UndecodableAnswer ==
    LeadHandlerDone /\ ~completion.raised /\ ~json_loads(completion.content).ok

\* C9: when the completion call returns text that is no JSON, the record has
\* that text as its reply, name, email and phone null, lead_type "Other",
\* priority "Medium", the truncated input as summary and no error, and the
\* response is a 200.  On / the record is the response's result; on /lead
\* the null name, email and phone have been replaced by the caller's.
C9_RawTextBecomesReply ==
    UndecodableAnswer =>
        /\ response.status = 200
        /\ response.result.v.k = "dict"
        /\ response.result.m[<<"reply">>] = Str(completion.content)
        /\ response.result.m[<<"lead_type">>] = Str(<<"Other">>)
        /\ response.result.m[<<"priority">>] = Str(<<"Medium">>)
        /\ response.result.m[<<"summary">>].k = "str"
        /\ IsFirstChars(response.result.m[<<"summary">>].s, locals.body, SummaryLimit)
        /\ <<"error">> \notin DOMAIN response.result.m
        /\ route = "/" =>
              /\ DOMAIN response.result.m = SevenKeys
              /\ \A key \in {<<"name">>, <<"email">>, <<"phone">>} :
                    response.result.m[key] = None
        /\ route = "/lead" =>
              /\ response.json[<<"name">>] = locals.from_name
              /\ response.json[<<"email">>] = locals.from_email
              /\ response.json[<<"phone">>] = locals.phone

C9_Witness ==
    /\ UndecodableAnswer /\ route = "/" /\ response.status = 200
    /\ completion.content = <<" ", "Hi.", "\n", "\n", "Thanks.", "\n">>
    /\ response.result.m[<<"reply">>].s = <<" ", "Hi.", "\n", "\n", "Thanks.", "\n">>
    /\ Len(locals.body) > SummaryLimit

(* ------------------------------------------------------------------ *)
(* C10                                                                 *)
(* ------------------------------------------------------------------ *)

\* a 200 whose summary does not come from the model's output
SummaryNotFromModel ==
    /\ Succeeded
    /\ response.result.v.k = "dict"
    /\ \/ calls = 0
       \/ locals.handler = "handle_generic_task"
       \/ completion.raised
       \/ ~json_loads(completion.content).ok
       \/ <<"summary">> \notin DOMAIN json_loads(completion.content).m

\* C10 as claimed: such a summary is the first 500 characters of the body as
\* the caller sent it: never longer than 500, and exactly 500 when the body
\* sent has at least 500 characters.
C10_SummaryOfRawBody ==
    SummaryNotFromModel =>
        /\ response.result.m[<<"summary">>].k = "str"
        /\ IsFirstChars(response.result.m[<<"summary">>].s, SentBody, SummaryLimit)

\* C10 amended: such a summary is the first 500 characters of the body with
\* its leading and trailing whitespace removed: never longer than 500, and
\* exactly 500 when the trimmed body has at least 500 characters.
C10_SummaryOfTrimmedBody ==
    SummaryNotFromModel =>
        /\ response.result.m[<<"summary">>].k = "str"
        /\ IsFirstChars(response.result.m[<<"summary">>].s, Strip(SentBody), SummaryLimit)

\* a body of 501 characters between blanks, cut to 500 after a failed call
C10_Witness ==
    /\ SummaryNotFromModel /\ completion.raised
    /\ Len(Strip(SentBody)) > SummaryLimit
    /\ Len(SentBody) > Len(Strip(SentBody))
    /\ Len(response.result.m[<<"summary">>].s) = SummaryLimit


====
